---- MODULE Spec2Model ----
(***************************************************************************)
(* Model of arduino/arduino.ino: setup() configures the serial transport   *)
(* and brings up the ADXL345 accelerometer, loop() reads one event and     *)
(* prints it as "[x,y,z]" followed by a delay.  The Arduino core calls     *)
(* setup() once and then loop() forever.  Every statement of the sketch is *)
(* one action; pc holds the source line of the next statement to execute.  *)
(***************************************************************************)
EXTENDS Integers, Sequences, FiniteSets, TLC

\* Number of loop() calls explored.
MaxIter == 3
\* Largest time (ms) a sensor read may take on the clock.
MaxOverhead == 1

VARIABLES
    pc,           \* source line of the next statement: "L12" .. "L34"
    BAUD_RATE,    \* const int BAUD_RATE (line 5)
    DELAY_MS,     \* const int DELAY_MS (line 6)
    serialRate,   \* rate the Serial transport is configured with, 0 = not begun
    serialBegins, \* number of Serial.begin calls
    serial,       \* every character written to Serial, in order
    accelBegins,  \* number of accel.begin calls
    accelState,   \* "untried", "ok" or "failed": result of accel.begin
    getEvents,    \* number of accel.getEvent calls
    getEventOk,   \* result of the last accel.getEvent call
    sensed,       \* the sample the sensor delivered in the last getEvent call
    event,        \* loop()'s local sensors_event_t: acceleration <<x, y, z>>
    iterations,   \* number of loop() calls that have returned
    delays,       \* number of delay() calls that have returned
    lastDelay,    \* argument of the last delay() call, 0 = none yet
    now,          \* logical clock, ms
    starts        \* per sample line, when "[" was written: clock t, number of
                  \* delays d and number of getEvent calls g so far

vars == <<pc, BAUD_RATE, DELAY_MS, serialRate, serialBegins, serial, accelBegins,
          accelState, getEvents, getEventOk, sensed, event, iterations, delays,
          lastDelay, now, starts>>

----------------------------------------------------------------------------
(* Floating-point values: a finite value is held in thousandths; NaN,      *)
(* infinities and values beyond +-4294967040.0 are held by kind.           *)

Num(m) == [k |-> "num", m |-> m]
NaN == [k |-> "nan", m |-> 0]
Inf == [k |-> "inf", m |-> 0]
Big == [k |-> "big", m |-> 0]
NoValue == [k |-> "none", m |-> 0]
NoEvent == <<NoValue, NoValue, NoValue>>

\* Readings the sensor may deliver.
Samples ==
    { <<Num(1000), Num(-2500), Num(9810)>>,
      <<Num(-4), Num(1995), Num(12346)>> }

\* What event may hold when getEvent did not fill it: the local is declared
\* without an initializer, so any bit pattern, a previous sample included.
Indeterminate ==
    Samples \cup { <<NaN, Inf, Big>> }

Overheads == 0..MaxOverhead

DigitChar(d) == <<"0", "1", "2", "3", "4", "5", "6", "7", "8", "9">>[d + 1]

\* Print::print(unsigned long): decimal digits, most significant first.
RECURSIVE printNumber(_)
printNumber(n) ==
    IF n < 10 THEN <<DigitChar(n)>>
    ELSE printNumber(n \div 10) \o <<DigitChar(n % 10)>>

\* Print::printFloat(number, 2), which Serial.print(float) calls.
printFloat(v) ==
    IF v.k = "nan" THEN <<"n", "a", "n">>
    ELSE IF v.k = "inf" THEN <<"i", "n", "f">>
    ELSE IF v.k = "big" THEN <<"o", "v", "f">>
    ELSE LET neg == v.m < 0
             a == (IF neg THEN -v.m ELSE v.m) + 5
             int_part == a \div 1000
             rem == a % 1000
         IN  (IF neg THEN <<"-">> ELSE <<>>)
             \o printNumber(int_part) \o <<".">>
             \o <<DigitChar(rem \div 100), DigitChar((rem % 100) \div 10)>>

\* Print::println appends "\r\n".
LineEnd == <<"CR", "LF">>

DiagText ==
    <<"!", "!", " ", "K", "e", "i", "n", " ", "S", "e", "n", "s", "o", "r", " ",
      "G", "e", "f", "u", "n", "d", "e", "n", " ", "!", "!">>

----------------------------------------------------------------------------
Init ==
    /\ pc = "L12"
    /\ BAUD_RATE = 9600
    /\ DELAY_MS = 100
    /\ serialRate = 0
    /\ serialBegins = 0
    /\ serial = <<>>
    /\ accelBegins = 0
    /\ accelState = "untried"
    /\ getEvents = 0
    /\ getEventOk = TRUE
    /\ sensed = NoEvent
    /\ event = NoEvent
    /\ iterations = 0
    /\ delays = 0
    /\ lastDelay = 0
    /\ now = 0
    /\ starts = <<>>

\* Serial.print(text): the characters are appended to the stream.
Write(text) == serial' = serial \o text

\* line 12: Serial.begin(BAUD_RATE);
SerialBegin ==
    /\ pc = "L12"
    /\ serialRate' = BAUD_RATE
    /\ serialBegins' = serialBegins + 1
    /\ pc' = "L13"
    /\ UNCHANGED <<BAUD_RATE, DELAY_MS, serial, accelBegins, accelState, getEvents,
                   getEventOk, sensed, event, iterations, delays, lastDelay, now,
                   starts>>

\* Variant of line 13: bring-up is tried again after a failure.
AccelBegin_Retry ==
    /\ pc = "L13"
    /\ \E ok \in BOOLEAN :
         /\ accelState' = IF ok THEN "ok" ELSE "failed"
         /\ pc' = IF ok THEN "L23" ELSE "L13"
    /\ accelBegins' = accelBegins + 1
    /\ UNCHANGED <<BAUD_RATE, DELAY_MS, serialRate, serialBegins, serial, getEvents,
                   getEventOk, sensed, event, iterations, delays, lastDelay, now,
                   starts>>

\* Variant of line 13: the test of accel.begin() is inverted.
AccelBegin_Inverted ==
    /\ pc = "L13"
    /\ \E ok \in BOOLEAN :
         /\ accelState' = IF ok THEN "ok" ELSE "failed"
         /\ pc' = IF ok THEN "L15" ELSE "L23"
    /\ accelBegins' = accelBegins + 1
    /\ UNCHANGED <<BAUD_RATE, DELAY_MS, serialRate, serialBegins, serial, getEvents,
                   getEventOk, sensed, event, iterations, delays, lastDelay, now,
                   starts>>

\* lines 13, 18: if(!accel.begin()) ... ; on success setup() returns and the
\* core calls loop().
AccelBegin ==
    /\ pc = "L13"
    /\ \E ok \in BOOLEAN :
         /\ accelState' = IF ok THEN "ok" ELSE "failed"
         /\ pc' = IF ok THEN "L23" ELSE "L15"
    /\ accelBegins' = accelBegins + 1
    /\ UNCHANGED <<BAUD_RATE, DELAY_MS, serialRate, serialBegins, serial, getEvents,
                   getEventOk, sensed, event, iterations, delays, lastDelay, now,
                   starts>>

\* Variant of lines 15-16: the diagnostic is printed and setup() returns.
PrintDiag_Returns ==
    /\ pc = "L15"
    /\ Write(DiagText \o LineEnd)
    /\ pc' = "L23"
    /\ UNCHANGED <<BAUD_RATE, DELAY_MS, serialRate, serialBegins, accelBegins,
                   accelState, getEvents, getEventOk, sensed, event, iterations,
                   delays, lastDelay, now, starts>>

\* line 15: Serial.println("!! Kein Sensor Gefunden !!");
PrintDiag ==
    /\ pc = "L15"
    /\ Write(DiagText \o LineEnd)
    /\ pc' = "L16"
    /\ UNCHANGED <<BAUD_RATE, DELAY_MS, serialRate, serialBegins, accelBegins,
                   accelState, getEvents, getEventOk, sensed, event, iterations,
                   delays, lastDelay, now, starts>>

\* Variant of line 16: the busy loop ends and setup() returns.
Halt_FallsThrough ==
    /\ pc = "L16"
    /\ pc' = "L23"
    /\ UNCHANGED <<BAUD_RATE, DELAY_MS, serialRate, serialBegins, serial,
                   accelBegins, accelState, getEvents, getEventOk, sensed, event,
                   iterations, delays, lastDelay, now, starts>>

\* line 16: while(1); an empty loop the toolchain emits as a jump to itself:
\* the sketch stays here and nothing changes.
Halt ==
    /\ pc = "L16"
    /\ pc' = "L16"
    /\ UNCHANGED <<BAUD_RATE, DELAY_MS, serialRate, serialBegins, serial,
                   accelBegins, accelState, getEvents, getEventOk, sensed, event,
                   iterations, delays, lastDelay, now, starts>>

\* Variant of line 23: the result of getEvent is tested and a failure is
\* handled like a failed bring-up.
GetEvent_Checked ==
    /\ pc = "L23"
    /\ iterations < MaxIter
    /\ \E ok \in BOOLEAN :
         /\ getEventOk' = ok
         /\ pc' = IF ok THEN "L26" ELSE "L15"
         /\ IF ok
            THEN \E s \in Samples : sensed' = s /\ event' = s
            ELSE \E u \in Indeterminate : sensed' = NoEvent /\ event' = u
    /\ getEvents' = getEvents + 1
    /\ \E d \in Overheads : now' = now + d
    /\ UNCHANGED <<BAUD_RATE, DELAY_MS, serialRate, serialBegins, serial,
                   accelBegins, accelState, iterations, delays, lastDelay, starts>>

\* lines 22-23: sensors_event_t event; accel.getEvent(&event); the result is
\* discarded.
GetEvent ==
    /\ pc = "L23"
    /\ iterations < MaxIter
    /\ \E ok \in BOOLEAN :
         /\ getEventOk' = ok
         /\ IF ok
            THEN \E s \in Samples : sensed' = s /\ event' = s
            ELSE \E u \in Indeterminate : sensed' = NoEvent /\ event' = u
    /\ getEvents' = getEvents + 1
    /\ \E d \in Overheads : now' = now + d
    /\ pc' = "L26"
    /\ UNCHANGED <<BAUD_RATE, DELAY_MS, serialRate, serialBegins, serial,
                   accelBegins, accelState, iterations, delays, lastDelay, starts>>

\* What the print statements of loop() leave alone.
PrintFrame ==
    UNCHANGED <<BAUD_RATE, DELAY_MS, serialRate, serialBegins, accelBegins,
                accelState, getEvents, getEventOk, sensed, event, iterations,
                delays, lastDelay>>

\* line 26: Serial.print("[");
PrintOpen ==
    /\ pc = "L26"
    /\ Write(<<"[">>)
    /\ starts' = Append(starts, [t |-> now, d |-> delays, g |-> getEvents])
    /\ pc' = "L27"
    /\ UNCHANGED now
    /\ PrintFrame

\* line 27: Serial.print(event.acceleration.x);
PrintX ==
    /\ pc = "L27"
    /\ Write(printFloat(event[1]))
    /\ pc' = "L28"
    /\ UNCHANGED <<now, starts>>
    /\ PrintFrame

\* line 28: Serial.print(",");
PrintComma1 ==
    /\ pc = "L28"
    /\ Write(<<",">>)
    /\ pc' = "L29"
    /\ UNCHANGED <<now, starts>>
    /\ PrintFrame

\* Variant of line 29: the x field is printed in place of y.
PrintY_PrintsX ==
    /\ pc = "L29"
    /\ Write(printFloat(event[1]))
    /\ pc' = "L30"
    /\ UNCHANGED <<now, starts>>
    /\ PrintFrame

\* line 29: Serial.print(event.acceleration.y);
PrintY ==
    /\ pc = "L29"
    /\ Write(printFloat(event[2]))
    /\ pc' = "L30"
    /\ UNCHANGED <<now, starts>>
    /\ PrintFrame

\* Variant of line 30: the second separator is left out.
PrintComma2_Missing ==
    /\ pc = "L30"
    /\ Write(<<>>)
    /\ pc' = "L31"
    /\ UNCHANGED <<now, starts>>
    /\ PrintFrame

\* line 30: Serial.print(",");
PrintComma2 ==
    /\ pc = "L30"
    /\ Write(<<",">>)
    /\ pc' = "L31"
    /\ UNCHANGED <<now, starts>>
    /\ PrintFrame

\* line 31: Serial.print(event.acceleration.z);
PrintZ ==
    /\ pc = "L31"
    /\ Write(printFloat(event[3]))
    /\ pc' = "L32"
    /\ UNCHANGED <<now, starts>>
    /\ PrintFrame

\* line 32: Serial.println("]");
PrintlnClose ==
    /\ pc = "L32"
    /\ Write(<<"]">> \o LineEnd)
    /\ pc' = "L34"
    /\ UNCHANGED <<now, starts>>
    /\ PrintFrame

\* Variant of line 34: loop() returns without delaying.
Delay_Skipped ==
    /\ pc = "L34"
    /\ iterations' = iterations + 1
    /\ pc' = "L23"
    /\ UNCHANGED <<BAUD_RATE, DELAY_MS, serialRate, serialBegins, serial,
                   accelBegins, accelState, getEvents, getEventOk, sensed, event,
                   delays, lastDelay, now, starts>>

\* Variant of line 34: the delay grows with every iteration.
Delay_Growing ==
    /\ pc = "L34"
    /\ lastDelay' = DELAY_MS * (iterations + 1)
    /\ delays' = delays + 1
    /\ now' = now + DELAY_MS * (iterations + 1)
    /\ iterations' = iterations + 1
    /\ pc' = "L23"
    /\ UNCHANGED <<BAUD_RATE, DELAY_MS, serialRate, serialBegins, serial,
                   accelBegins, accelState, getEvents, getEventOk, sensed, event,
                   starts>>

\* Variant of lines 34-35: after the delay the sketch stops in a busy loop.
Delay_ThenHalt ==
    /\ pc = "L34"
    /\ lastDelay' = DELAY_MS
    /\ delays' = delays + 1
    /\ now' = now + DELAY_MS
    /\ iterations' = iterations + 1
    /\ pc' = "L16"
    /\ UNCHANGED <<BAUD_RATE, DELAY_MS, serialRate, serialBegins, serial,
                   accelBegins, accelState, getEvents, getEventOk, sensed, event,
                   starts>>

\* lines 34-35: delay(DELAY_MS); loop() returns and the core calls it again.
Delay ==
    /\ pc = "L34"
    /\ lastDelay' = DELAY_MS
    /\ delays' = delays + 1
    /\ now' = now + DELAY_MS
    /\ iterations' = iterations + 1
    /\ pc' = "L23"
    /\ UNCHANGED <<BAUD_RATE, DELAY_MS, serialRate, serialBegins, serial,
                   accelBegins, accelState, getEvents, getEventOk, sensed, event,
                   starts>>

Next ==
    \/ SerialBegin
    \/ AccelBegin
    \/ PrintDiag
    \/ Halt
    \/ GetEvent
    \/ PrintOpen
    \/ PrintX
    \/ PrintComma1
    \/ PrintY
    \/ PrintComma2
    \/ PrintZ
    \/ PrintlnClose
    \/ Delay

Spec == Init /\ [][Next]_vars

\* The sketch is the only thread of control: a statement that can run does run.
FairSpec == Spec /\ WF_vars(Next)

----------------------------------------------------------------------------
(* Reading the serial stream back: lines and the unterminated remainder.   *)

Range(s) == { s[i] : i \in 1..Len(s) }
Count(s, c) == Cardinality({ i \in 1..Len(s) : s[i] = c })

\* Positions of the line feeds of s.
LineEnds(s) == { i \in 1..Len(s) : s[i] = "LF" }
NumLines(s) == Cardinality(LineEnds(s))

\* The line of s that ends at position e, terminator included.
LineAt(s, e) ==
    LET before == { j \in LineEnds(s) : j < e }
        first == IF before = {} THEN 1
                 ELSE (CHOOSE j \in before : \A k \in before : k <= j) + 1
    IN  SubSeq(s, first, e)

\* The characters of s after its last line feed.
Partial(s) ==
    LET ends == LineEnds(s)
        first == IF ends = {} THEN 1
                 ELSE (CHOOSE j \in ends : \A k \in ends : k <= j) + 1
    IN  SubSeq(s, first, Len(s))

LastLine(s) ==
    LET ends == LineEnds(s)
    IN  LineAt(s, CHOOSE j \in ends : \A k \in ends : k <= j)

\* '[' x ',' y ',' z ']' and the line terminator, for a sample ev.
FormatLine(ev) ==
    <<"[">> \o printFloat(ev[1]) \o <<",">> \o printFloat(ev[2]) \o <<",">>
    \o printFloat(ev[3]) \o <<"]">> \o LineEnd

DiagLine == DiagText \o LineEnd

\* One opening bracket first, one closing bracket before the terminator, two
\* commas, one terminator, and three non-empty fields of number characters.
NumberChars ==
    { "0", "1", "2", "3", "4", "5", "6", "7", "8", "9", "-", ".",
      "n", "a", "i", "f", "o", "v" }

WellFormed(l) ==
    /\ Len(l) >= 10
    /\ l[1] = "["
    /\ l[Len(l) - 2] = "]"
    /\ l[Len(l) - 1] = "CR"
    /\ l[Len(l)] = "LF"
    /\ Count(l, "[") = 1
    /\ Count(l, "]") = 1
    /\ Count(l, ",") = 2
    /\ Count(l, "CR") = 1
    /\ Count(l, "LF") = 1
    /\ \A i \in 2..(Len(l) - 3) :
         /\ l[i] \in NumberChars \cup {","}
         /\ l[i] = "," => l[i - 1] \in NumberChars /\ l[i + 1] \in NumberChars

\* The part of the current line that the statements before pc have written.
Written ==
    LET x == printFloat(event[1])
        y == printFloat(event[2])
        z == printFloat(event[3])
    IN  CASE pc = "L27" -> <<"[">>
          [] pc = "L28" -> <<"[">> \o x
          [] pc = "L29" -> <<"[">> \o x \o <<",">>
          [] pc = "L30" -> <<"[">> \o x \o <<",">> \o y
          [] pc = "L31" -> <<"[">> \o x \o <<",">> \o y \o <<",">>
          [] pc = "L32" -> <<"[">> \o x \o <<",">> \o y \o <<",">> \o z
          [] OTHER -> <<>>

\* The control states of the sketch.
Control ==
    CASE pc \in {"L12", "L13", "L15"} -> "uninitialized"
      [] pc = "L16" -> "halted"
      [] pc \in {"L23", "L26", "L27", "L28", "L29", "L30", "L31", "L32", "L34"}
           -> "looping"
      [] OTHER -> "unknown"

\* 1 while a loop() call is past its getEvent, 0 otherwise.
InBody == IF pc \in {"L26", "L27", "L28", "L29", "L30", "L31", "L32", "L34"}
          THEN 1 ELSE 0

----------------------------------------------------------------------------
\* C1: if accel.begin() fails, the diagnostic line is written exactly once (it
\* is eventually written, and the stream never holds more than that one line),
\* and no sample is ever acquired or written: loop() is never entered.
C1_Safety ==
    accelState = "failed" =>
        /\ pc \in {"L15", "L16"}
        /\ serial = (IF pc = "L16" THEN DiagLine ELSE <<>>)
        /\ getEvents = 0
        /\ starts = <<>>
        /\ iterations = 0

C1_StartupContract ==
    /\ []C1_Safety
    /\ (accelState = "failed") ~> [](serial = DiagLine)

C1_Witness ==
    /\ accelState = "failed"
    /\ pc = "L16"
    /\ serial = DiagLine

\* C2: every line loop() has written is '[' x ',' y ',' z ']' terminator for
\* some values x, y, z, with one bracket pair and exactly two commas, and the
\* unterminated rest of the stream is exactly what the statements of the
\* running iteration have written so far (nothing partial between iterations).
C2_FormatInvariant ==
    accelState = "ok" =>
        /\ \A e \in LineEnds(serial) :
             /\ WellFormed(LineAt(serial, e))
             /\ \E u \in Indeterminate : LineAt(serial, e) = FormatLine(u)
        /\ Partial(serial) = Written

C2_Witness ==
    /\ pc = "L23"
    /\ iterations = 2
    /\ serial = FormatLine(<<Num(-4), Num(1995), Num(12346)>>)
                \o FormatLine(<<NaN, Inf, Big>>)

\* C3: after a successful bring-up the loop keeps running: for every N up to
\* the explored bound a state with N sample lines and N returned loop() calls
\* is eventually reached.  The number of lines written equals the number of
\* returned loop() calls whenever loop() is not at its delay, and is one more
\* while it is: the line of an iteration is written before the iteration ends.
C3_LinesMatch ==
    accelState = "ok" =>
        /\ NumLines(serial) = iterations + (IF pc = "L34" THEN 1 ELSE 0)
        /\ pc = "L23" => NumLines(serial) = iterations /\ Partial(serial) = <<>>

C3_Liveness ==
    /\ []C3_LinesMatch
    /\ \A n \in 1..MaxIter :
         (accelState = "ok" /\ getEvents = 0)
             ~> (NumLines(serial) = n /\ iterations = n)

C3_Witness ==
    /\ accelState = "ok"
    /\ pc = "L23"
    /\ iterations = MaxIter
    /\ NumLines(serial) = MaxIter

\* C3 as stated: the number of lines written equals the number of returned
\* loop() calls in every state.
C3_LinesEqualIterations ==
    accelState = "ok" => NumLines(serial) = iterations

\* C4: between the starts of two consecutive sample lines exactly one delay
\* happens, and the clock has advanced by at least DELAY_MS.
C4_PacingInvariant ==
    \A i \in 2..Len(starts) :
        /\ starts[i].d - starts[i - 1].d = 1
        /\ starts[i].t - starts[i - 1].t >= DELAY_MS

C4_Witness ==
    /\ Len(starts) = 3
    /\ starts[2].t - starts[1].t = DELAY_MS
    /\ starts[3].t - starts[2].t = DELAY_MS + 1

\* C5: setup() runs once: Serial.begin is called exactly once and before any
\* character is written, accel.begin is called exactly once, and no getEvent
\* call and no sample line happens unless accel.begin has returned success.
C5_State ==
    /\ serialBegins = (IF pc = "L12" THEN 0 ELSE 1)
    /\ accelBegins = (IF pc \in {"L12", "L13"} THEN 0 ELSE 1)
    /\ (accelState = "untried") = (accelBegins = 0)
    /\ serial # <<>> => serialBegins = 1 /\ serialRate = BAUD_RATE
    /\ (getEvents > 0 \/ starts # <<>> \/ Control = "looping") => accelState = "ok"

C5_InitializerOnce ==
    /\ []C5_State
    /\ [][/\ serial' # serial => serialBegins = 1 /\ serialBegins' = 1
          /\ serialBegins' # serialBegins => serial = <<>> /\ serialBegins = 0
          /\ accelBegins' # accelBegins => accelBegins = 0 /\ getEvents = 0
          /\ getEvents' # getEvents => accelState = "ok"]_vars

C5_Witness ==
    /\ serialBegins = 1
    /\ accelBegins = 1
    /\ accelState = "ok"
    /\ getEvents = 2
    /\ NumLines(serial) = 2

\* C6: the halted state is terminal: no step leaves it or changes anything in
\* it; the control state is always uninitialized, looping or halted; halted is
\* entered only from setup() after a failed bring-up, and the looping state is
\* never left.
C6_HaltTerminal ==
    /\ [](Control \in {"uninitialized", "looping", "halted"})
    /\ [][/\ Control # "halted"
          /\ Control' = "halted" => Control = "uninitialized" /\ accelState = "failed"
          /\ Control = "looping" => Control' = "looping"
          /\ Control' = "uninitialized" => Control = "uninitialized"]_vars

C6_Witness ==
    /\ Control = "halted"
    /\ accelBegins = 1
    /\ Len(serial) = Len(DiagLine)
    /\ delays = 0

\* C7: each iteration calls getEvent once and writes one line whose fields are
\* the x, y and z of the event of that iteration (the delivered sample when
\* getEvent succeeded), whatever the earlier samples were.
C7_OneSamplePerLine ==
    /\ getEvents = iterations + InBody
    /\ pc = "L34" =>
         /\ LastLine(serial) = FormatLine(event)
         /\ NumLines(serial) = iterations + 1
         /\ getEventOk => event = sensed /\ sensed \in Samples

C7_Witness ==
    /\ pc = "L34"
    /\ iterations = 2
    /\ getEventOk
    /\ LET line == <<"[", "1", ".", "0", "0", ",", "-", "2", ".", "5", "0", ",",
                     "9", ".", "8", "1", "]", "CR", "LF">>
       IN  serial = line \o line \o line

\* C8: a failing getEvent is not detected: the iteration still writes one
\* well-formed line, delays and goes on to the next iteration; the diagnostic
\* is never written in the loop, the loop never halts and getEvent is called
\* once per iteration.
C8_State ==
    accelState = "ok" =>
        /\ "!" \notin Range(serial)
        /\ Control = "looping"
        /\ getEvents = iterations + InBody
        /\ (pc = "L34" /\ ~getEventOk) =>
             /\ WellFormed(LastLine(serial))
             /\ NumLines(serial) = iterations + 1

C8_AcquisitionUnchecked ==
    /\ []C8_State
    /\ [][/\ pc = "L23" => pc' = "L26"
          /\ pc = "L32" => pc' = "L34" /\ NumLines(serial') = NumLines(serial) + 1
          /\ pc = "L34" => pc' = "L23" /\ delays' = delays + 1
                           /\ iterations' = iterations + 1]_vars

C8_Witness ==
    /\ pc = "L26"
    /\ iterations = 1
    /\ delays = 1
    /\ ~getEventOk
    /\ serial = <<"[", "n", "a", "n", ",", "i", "n", "f", ",", "o", "v", "f", "]",
                  "CR", "LF">>

\* C9: BAUD_RATE and DELAY_MS keep the values of lines 5-6 in every state, the
\* transport is configured with BAUD_RATE and every delay is DELAY_MS long.
C9_ConstantsFixed ==
    /\ BAUD_RATE = 9600
    /\ DELAY_MS = 100
    /\ serialRate = (IF serialBegins = 0 THEN 0 ELSE 9600)
    /\ lastDelay = (IF delays = 0 THEN 0 ELSE 100)
    /\ \A i \in 1..Len(starts) : starts[i].t >= starts[i].d * 100

C9_Witness ==
    /\ delays = 3
    /\ lastDelay = 100
    /\ serialRate = 9600
    /\ now >= 300

\* C10: after a successful bring-up the stream holds sample lines only and
\* never the diagnostic; after a failed one it holds at most the diagnostic
\* line; in each iteration getEvent comes first, then the line, then the delay,
\* so no delay precedes the first line.
C10_OutputsExclusive ==
    /\ accelState = "ok" =>
         /\ \A e \in LineEnds(serial) :
              \E u \in Indeterminate : LineAt(serial, e) = FormatLine(u)
         /\ Partial(serial) = <<>> \/ Partial(serial)[1] = "["
         /\ "!" \notin Range(serial)
         /\ \A e \in LineEnds(serial) : LineAt(serial, e) # DiagLine
    /\ accelState = "failed" => serial \in {<<>>, DiagLine}
    /\ \A i \in 1..Len(starts) : starts[i].g = i /\ starts[i].d = i - 1
    /\ delays = iterations
    /\ Len(starts) = iterations + (IF pc \in {"L23", "L26"} THEN 0 ELSE 1)
       \/ accelState # "ok"

C10_Witness ==
    /\ accelState = "ok"
    /\ pc = "L34"
    /\ Len(starts) = 1
    /\ starts[1].d = 0
    /\ delays = 0
    /\ NumLines(serial) = 1

====
